---- MODULE Spec2Model ----
(***************************************************************************)
(* Model of the cv-box map UI (src/src/App.js): the LocationController     *)
(* effect with its two-stage position request and position watch, the      *)
(* MapView host state and handlers, and the SimpleRouting effect with the  *)
(* simulated-route / straight-line estimation; and of the earlier host     *)
(* component of src/src/MapView.jsx with its one-shot position request.    *)
(*                                                                         *)
(* Units.  Coordinates are integer micro-degrees (1e-6 degree), distances  *)
(* integer metres, accuracies integer metres.  JavaScript null is the      *)
(* value NullPosition / NullAccuracy / NullError / NullInfo of the field.  *)
(***************************************************************************)
EXTENDS Integers, Sequences, FiniteSets, TLC

(***************************************************************************)
(* Bounds of the model.                                                    *)
(***************************************************************************)
MaxSessions == 2      \* startLocationTracking runs that get past the guard
MaxRefresh == 1       \* Refresh (centerOnUser) requests in flight at once
MaxOrphanLayers == 1  \* route polylines left on the map with no ref to them

(***************************************************************************)
(* Program constants.                                                      *)
(***************************************************************************)
yaoundeCenter == <<3848000, 11502000>>

locations ==
  << <<3865000, 11518000>>,
     <<3723000, 11553000>>,
     <<3866000, 11518000>>,
     <<3870000, 11512000>>,
     <<3873000, 11519000>> >>

\* the destinations the user picks from in the model
Destinations == { locations[1], locations[2] }

NullPosition == <<>>
NullAccuracy == 0 - 1
NullError == "null"
NullInfo == <<>>

\* position fixes of the device sensor: position.coords of a GeolocationPosition
Samples ==
  { [coords |-> <<3850000, 11500000>>, accuracy |-> 12],
    [coords |-> <<3865000, 11518000>>, accuracy |-> 65] }

\* GeolocationPositionError.message of the three error kinds
GeoErrors == { "User denied Geolocation", "Position unavailable", "Timeout expired" }

NoSample == [coords |-> NullPosition, accuracy |-> NullAccuracy]

VARIABLES
  \* ---- MapView state (useState) ----
  userPosition, locationAccuracy, selectedDestination, loading, error,
  routeInfo, isRoutingLoading,
  \* ---- React ----
  treeMounted,      \* MapView (and with it LocationController) is mounted
  hostPending,      \* a render of MapView is scheduled
  view,             \* what the last committed render of MapView shows
  \* ---- LocationController ----
  watchId, isWatching, mapReadyRef,
  readyTimer,       \* the 100 ms setInterval of the last effect run is active
  sessions,         \* one record per startLocationTracking run past its guard
  \* ---- browser / Leaflet ----
  geoSupported,     \* navigator.geolocation exists
  mapLoaded,        \* map._container && map._loaded
  watches,          \* ids of the active watchPosition subscriptions
  refreshPending,   \* centerOnUser requests in flight
  \* ---- SimpleRouting / Leaflet route overlay ----
  routeLayerRef,    \* routeLayerRef.current: "null" or "layer"
  refOnMap,         \* the layer routeLayerRef.current names is on the map
  orphanLayers,     \* route polylines on the map that no ref names any more
  lastRun,          \* the last createRoute run: its props, its calls, and
                    \* whether the commit that ran it followed, with no event
                    \* between, a commit that ran createRoute too (rerun)
  \* ---- history ----
  lastEvent,        \* the callback the last step ran and what it invoked
  lastWrite,        \* the last writer of (userPosition, locationAccuracy)
  \* ---- MapView.jsx: the state of its MapView (useState, 112-117) ----
  jsxUserPosition, jsxSelectedDestination, jsxLoading, jsxError, mapReady,
  shouldCenterOnUser,
  \* ---- MapView.jsx: React, timers, the request, the map ----
  jsxMounted,       \* the MapView of MapView.jsx is mounted
  jsxPending,       \* a render of it is scheduled
  jsxTimer,         \* the 500 ms timeout of getUserLocation: "unset",
                    \* "pending", or "done" (fired or cleared)
  jsxRequest,       \* its getCurrentPosition: "none", "pending" or "done"
  userMarker,       \* the user location marker is on the map
  centerResetTimer, \* the 1 s timeout set by the marker's add handler
  routingControlRef \* routingControlRef.current is a control on the map

hostVars == <<userPosition, locationAccuracy, selectedDestination, loading,
              error, routeInfo, isRoutingLoading>>
reactVars == <<treeMounted, hostPending, view>>
lcVars == <<watchId, isWatching, mapReadyRef, readyTimer, sessions>>
envVars == <<geoSupported, mapLoaded, watches, refreshPending>>
routeVars == <<routeLayerRef, refOnMap, orphanLayers, lastRun>>
jsxVars == <<jsxUserPosition, jsxSelectedDestination, jsxLoading, jsxError,
             mapReady, shouldCenterOnUser, jsxMounted, jsxPending, jsxTimer,
             jsxRequest, userMarker, centerResetTimer, routingControlRef>>
vars == <<hostVars, reactVars, lcVars, envVars, routeVars, lastEvent, lastWrite,
          jsxVars>>

\* src: the callback that ran; cb: the prop it called; s: its session;
\* msg: the message of the error a stage-2 error callback was given
Event(src, cb, s) == [src |-> src, cb |-> cb, s |-> s, msg |-> ""]

NewSession ==
  [phase |-> "timer", mounted |-> TRUE, s1 |-> "none", s2 |-> "none",
   s2Issued |-> 0, watch |-> 0, warned |-> FALSE]

NoRun == [userPosition |-> NullPosition, destination |-> NullPosition,
          calls |-> <<>>, result |-> <<>>, rerun |-> FALSE]

\* MapView.jsx after construction: the initial state of 112-117, the first
\* render scheduled, the effect of 131-173 not yet run
JsxInit ==
  /\ jsxUserPosition = NullPosition
  /\ jsxSelectedDestination = NullPosition
  /\ jsxLoading = TRUE
  /\ jsxError = NullError
  /\ mapReady = FALSE
  /\ shouldCenterOnUser = FALSE
  /\ jsxMounted = TRUE
  /\ jsxPending = TRUE
  /\ jsxTimer = "unset"
  /\ jsxRequest = "none"
  /\ userMarker = FALSE
  /\ centerResetTimer = FALSE
  /\ routingControlRef = FALSE

Init ==
  /\ JsxInit
  /\ userPosition = NullPosition
  /\ locationAccuracy = NullAccuracy
  /\ selectedDestination = NullPosition
  /\ loading = TRUE
  /\ error = NullError
  /\ routeInfo = NullInfo
  /\ isRoutingLoading = FALSE
  /\ treeMounted = TRUE
  /\ hostPending = TRUE
  /\ view = [refresh |-> FALSE, clear |-> FALSE, routing |-> FALSE]
  /\ watchId = 0
  /\ isWatching = FALSE
  /\ mapReadyRef = FALSE
  /\ readyTimer = FALSE
  /\ sessions = <<>>
  /\ geoSupported \in BOOLEAN
  /\ mapLoaded \in BOOLEAN
  /\ watches = {}
  /\ refreshPending = 0
  /\ routeLayerRef = "null"
  /\ refOnMap = FALSE
  /\ orphanLayers = 0
  /\ lastRun = NoRun
  /\ lastEvent = Event("init", "none", 0)
  /\ lastWrite = [kind |-> "none", sample |-> NoSample]

(***************************************************************************)
(* MapView handlers (App.js 411-457).  A setState of an unmounted          *)
(* component is discarded by React, so the handlers change the host state  *)
(* only while the tree is mounted; the call itself happens either way and  *)
(* is recorded in lastEvent by the caller.                                 *)
(***************************************************************************)
\* mutant: the accuracy of an earlier fix is kept (a partial update)
handleLocationFoundKeepsAccuracy(coords, accuracy) ==
  /\ userPosition' = coords
  /\ locationAccuracy' = IF locationAccuracy = NullAccuracy THEN accuracy
                         ELSE locationAccuracy
  /\ loading' = FALSE
  /\ error' = NullError

handleLocationFound(coords, accuracy) ==
  /\ userPosition' = coords
  /\ locationAccuracy' = accuracy
  /\ loading' = FALSE
  /\ error' = NullError

\* mutant: the default reference point is not substituted
handleLocationErrorKeepsPosition(errorMessage) ==
  /\ error' = errorMessage
  /\ loading' = FALSE
  /\ userPosition' = userPosition
  /\ locationAccuracy' = NullAccuracy

handleLocationError(errorMessage) ==
  /\ error' = errorMessage
  /\ loading' = FALSE
  /\ userPosition' = yaoundeCenter
  /\ locationAccuracy' = NullAccuracy

\* onLocationFound(coords, accuracy) as called by LocationController
onLocationFound(sample) ==
  IF treeMounted
    THEN /\ handleLocationFound(sample.coords, sample.accuracy)
         /\ hostPending' = TRUE
         /\ lastWrite' = [kind |-> "sample", sample |-> sample]
         /\ UNCHANGED <<selectedDestination, routeInfo, isRoutingLoading>>
    ELSE UNCHANGED <<hostVars, hostPending, lastWrite>>

\* onLocationError(message) as called by LocationController
onLocationError(errorMessage) ==
  IF treeMounted
    THEN /\ handleLocationError(errorMessage)
         /\ hostPending' = TRUE
         /\ lastWrite' = [kind |-> "error", sample |-> NoSample]
         /\ UNCHANGED <<selectedDestination, routeInfo, isRoutingLoading>>
    ELSE UNCHANGED <<hostVars, hostPending, lastWrite>>

(***************************************************************************)
(* LocationController (App.js 61-194).                                     *)
(***************************************************************************)
\* startLocationTracking (91-190): the guard, `let mounted = true`, and the
\* 1 s setTimeout of startLocationWatch.  The function it returns (183-189)
\* is dropped by both callers (lines 82 and 88), so nothing ever
\* runs it: `mounted` stays true, the timeout is never cleared and
\* clearWatch is never called.
startLocationTracking(closureIsWatching) ==
  IF ~mapReadyRef' \/ closureIsWatching
    THEN sessions' = sessions
    ELSE sessions' = Append(sessions, NewSession)

\* the body of the effect (67-89) as run at a commit, after the cleanup of
\* the previous run (86: clearInterval) when that run took the not-ready branch
LocationEffect ==
  IF mapLoaded
    THEN /\ mapReadyRef' = TRUE
         /\ readyTimer' = FALSE
         /\ startLocationTracking(isWatching)
    ELSE /\ mapReadyRef' = mapReadyRef
         /\ readyTimer' = TRUE
         /\ sessions' = sessions

\* whether the effect run at this commit would start one more session
StartsSession == mapLoaded /\ ~isWatching

\* Leaflet finishes loading the map
MapLoads ==
  /\ UNCHANGED jsxVars
  /\ UNCHANGED routeVars
  /\ ~mapLoaded
  /\ mapLoaded' = TRUE
  /\ lastEvent' = Event("mapLoads", "none", 0)
  /\ UNCHANGED <<hostVars, reactVars, lcVars, geoSupported, watches,
                 refreshPending, lastWrite>>

\* a tick of the 100 ms interval (79-84) that finds the map ready; a tick that
\* does not changes nothing.  The interval exists only for an effect run that
\* saw isWatching = false.
ReadyTick ==
  /\ UNCHANGED jsxVars
  /\ UNCHANGED routeVars
  /\ readyTimer
  /\ mapLoaded
  /\ Len(sessions) < MaxSessions
  /\ mapReadyRef' = TRUE
  /\ readyTimer' = FALSE
  /\ startLocationTracking(FALSE)
  /\ lastEvent' = Event("readyTick", "none", 0)
  /\ UNCHANGED <<hostVars, reactVars, watchId, isWatching, envVars, lastWrite>>

NextWatchId == Cardinality({ i \in 1..Len(sessions) : sessions[i].watch /= 0 }) + 1

\* startLocationWatch (96-179), run by the 1 s timeout of session s
StartLocationWatch(s) ==
  /\ UNCHANGED jsxVars
  /\ UNCHANGED routeVars
  /\ s \in 1..Len(sessions)
  /\ sessions[s].phase = "timer"
  /\ IF ~geoSupported
       THEN /\ onLocationError("Geolocation is not supported by this browser")
            /\ sessions' = [sessions EXCEPT ![s].phase = "fired"]
            /\ lastEvent' = Event("unsupported", "onLocationError", s)
            /\ UNCHANGED <<watchId, isWatching, watches>>
       ELSE \* getCurrentPosition (108) and, the closure's isWatching being
            \* false, watchPosition (162), setWatchId, setIsWatching
            /\ sessions' = [sessions EXCEPT ![s].phase = "fired",
                                            ![s].s1 = "pending",
                                            ![s].watch = NextWatchId]
            /\ watches' = watches \cup {NextWatchId}
            /\ IF treeMounted
                 THEN watchId' = NextWatchId /\ isWatching' = TRUE
                 ELSE UNCHANGED <<watchId, isWatching>>
            /\ lastEvent' = Event("startWatch", "none", s)
            /\ UNCHANGED <<hostVars, hostPending, lastWrite>>
  /\ UNCHANGED <<treeMounted, view, mapReadyRef, readyTimer, geoSupported,
                 mapLoaded, refreshPending>>

\* the guard of the three success callbacks (110, 137, 164)
Delivers(s) == sessions[s].mounted /\ mapReadyRef

\* stage-1 success callback (109-125)
Stage1Success(s, sample) ==
  /\ UNCHANGED jsxVars
  /\ UNCHANGED routeVars
  /\ s \in 1..Len(sessions)
  /\ sessions[s].s1 = "pending"
  /\ sessions' = [sessions EXCEPT ![s].s1 = "ok"]
  /\ IF Delivers(s)
       THEN /\ onLocationFound(sample)
            /\ lastEvent' = Event("stage1", "onLocationFound", s)
       ELSE /\ UNCHANGED <<hostVars, hostPending, lastWrite>>
            /\ lastEvent' = Event("stage1", "none", s)
  /\ UNCHANGED <<treeMounted, view, watchId, isWatching, mapReadyRef,
                 readyTimer, envVars>>

\* mutant: the stage-1 error callback issues the low-accuracy request twice
Stage1ErrorIssuesTwice(s, msg) ==
  /\ UNCHANGED jsxVars
  /\ UNCHANGED routeVars
  /\ s \in 1..Len(sessions)
  /\ sessions[s].s1 = "pending"
  /\ sessions' = [sessions EXCEPT ![s].s1 = "failed",
                                  ![s].s2 = "pending",
                                  ![s].s2Issued = @ + 2]
  /\ lastEvent' = Event("stage1Error", "none", s)
  /\ UNCHANGED <<hostVars, reactVars, watchId, isWatching, mapReadyRef,
                 readyTimer, envVars, lastWrite>>

\* mutant: the stage-1 error callback reports the error instead of falling back
Stage1ErrorReports(s, msg) ==
  /\ UNCHANGED jsxVars
  /\ UNCHANGED routeVars
  /\ s \in 1..Len(sessions)
  /\ sessions[s].s1 = "pending"
  /\ sessions' = [sessions EXCEPT ![s].s1 = "failed"]
  /\ onLocationError("Location error: " \o msg)
  /\ lastEvent' = Event("stage1Error", "onLocationError", s)
  /\ UNCHANGED <<treeMounted, view, watchId, isWatching, mapReadyRef,
                 readyTimer, envVars>>

\* stage-1 error callback (126-157): issues the low-accuracy request
Stage1Error(s, msg) ==
  /\ UNCHANGED jsxVars
  /\ UNCHANGED routeVars
  /\ s \in 1..Len(sessions)
  /\ sessions[s].s1 = "pending"
  /\ sessions' = [sessions EXCEPT ![s].s1 = "failed",
                                  ![s].s2 = "pending",
                                  ![s].s2Issued = @ + 1]
  /\ lastEvent' = Event("stage1Error", "none", s)
  /\ UNCHANGED <<hostVars, reactVars, watchId, isWatching, mapReadyRef,
                 readyTimer, envVars, lastWrite>>

\* stage-2 success callback (136-150)
Stage2Success(s, sample) ==
  /\ UNCHANGED jsxVars
  /\ UNCHANGED routeVars
  /\ s \in 1..Len(sessions)
  /\ sessions[s].s2 = "pending"
  /\ sessions' = [sessions EXCEPT ![s].s2 = "ok"]
  /\ IF Delivers(s)
       THEN /\ onLocationFound(sample)
            /\ lastEvent' = Event("stage2", "onLocationFound", s)
       ELSE /\ UNCHANGED <<hostVars, hostPending, lastWrite>>
            /\ lastEvent' = Event("stage2", "none", s)
  /\ UNCHANGED <<treeMounted, view, watchId, isWatching, mapReadyRef,
                 readyTimer, envVars>>

\* mutant: the stage-2 error callback only logs
Stage2ErrorOnlyLogs(s, msg) ==
  /\ UNCHANGED jsxVars
  /\ UNCHANGED routeVars
  /\ s \in 1..Len(sessions)
  /\ sessions[s].s2 = "pending"
  /\ sessions' = [sessions EXCEPT ![s].s2 = "failed"]
  /\ lastEvent' = [Event("stage2Error", "none", s) EXCEPT !.msg = msg]
  /\ UNCHANGED <<hostVars, reactVars, watchId, isWatching, mapReadyRef,
                 readyTimer, envVars, lastWrite>>

\* stage-2 error callback (151-154)
Stage2Error(s, msg) ==
  /\ UNCHANGED jsxVars
  /\ UNCHANGED routeVars
  /\ s \in 1..Len(sessions)
  /\ sessions[s].s2 = "pending"
  /\ sessions' = [sessions EXCEPT ![s].s2 = "failed"]
  /\ onLocationError("Location error: " \o msg)
  /\ lastEvent' = [Event("stage2Error", "onLocationError", s) EXCEPT !.msg = msg]
  /\ UNCHANGED <<treeMounted, view, watchId, isWatching, mapReadyRef,
                 readyTimer, envVars>>

\* watchPosition success callback (163-169)
WatchUpdate(s, sample) ==
  /\ UNCHANGED jsxVars
  /\ UNCHANGED routeVars
  /\ s \in 1..Len(sessions)
  /\ sessions[s].watch \in watches
  /\ IF Delivers(s)
       THEN /\ onLocationFound(sample)
            /\ lastEvent' = Event("watch", "onLocationFound", s)
       ELSE /\ UNCHANGED <<hostVars, hostPending, lastWrite>>
            /\ lastEvent' = Event("watch", "none", s)
  /\ UNCHANGED <<treeMounted, view, lcVars, envVars>>

\* mutant: a watch error ends the subscription
WatchErrorStopsWatch(s, msg) ==
  /\ UNCHANGED jsxVars
  /\ UNCHANGED routeVars
  /\ s \in 1..Len(sessions)
  /\ sessions[s].watch \in watches
  /\ sessions' = [sessions EXCEPT ![s].warned = TRUE]
  /\ watches' = watches \ {sessions[s].watch}
  /\ lastEvent' = Event("watchError", "none", s)
  /\ UNCHANGED <<hostVars, reactVars, watchId, isWatching, mapReadyRef,
                 readyTimer, geoSupported, mapLoaded, refreshPending, lastWrite>>

\* watchPosition error callback (170-172): console.warn only
WatchError(s, msg) ==
  /\ UNCHANGED jsxVars
  /\ UNCHANGED routeVars
  /\ s \in 1..Len(sessions)
  /\ sessions[s].watch \in watches
  /\ sessions' = [sessions EXCEPT ![s].warned = TRUE]
  /\ lastEvent' = Event("watchError", "none", s)
  /\ UNCHANGED <<hostVars, reactVars, watchId, isWatching, mapReadyRef,
                 readyTimer, envVars, lastWrite>>

(***************************************************************************)
(* Arithmetic.  JavaScript numbers are modelled in fixed point so that     *)
(* every intermediate value fits TLC's 32-bit integers: coordinates in     *)
(* 1e-6 degree, angles in 1e-7 radian, cosines in 1e-4, the haversine `a`  *)
(* in 1e-14, distances in metres.  The series used for Math.sin, Math.cos  *)
(* and Math.atan2 are those of small arguments: the operators are for      *)
(* points within a few tenths of a degree of each other at latitudes below *)
(* 26 degrees, which covers the `locations` of the program.                *)
(***************************************************************************)
\* Math.round of the quotient n / d (d > 0): the nearest integer, a tie up
MathRound(n, d) == (2 * n + d) \div (2 * d)

\* x * Math.PI / 180 for x in 1e-6 degree, in 1e-7 radian
ToRadians(x) ==
  LET q == x \div 1000
      r == x % 1000
  IN  (q * 17453) \div 100 + (r * 17453) \div 100000

\* Math.sin(x), x and the result in 1e-7
MathSin(x) == x - (((x * x) \div 10000000) * x) \div 60000000

\* Math.cos(x), x in 1e-7 radian, the result in 1e-4
MathCos(x) ==
  LET y == x \div 100
      x2 == (y * y) \div 1000000
  IN  10000 - x2 \div 2 + (x2 * x2) \div 240000

RECURSIVE SqrtIter(_, _, _)
SqrtIter(n, lo, hi) ==
  IF lo >= hi THEN lo
  ELSE LET mid == (lo + hi + 1) \div 2
       IN  IF mid * mid <= n THEN SqrtIter(n, mid, hi)
                             ELSE SqrtIter(n, lo, mid - 1)

\* Math.sqrt(n): the integer square root
MathSqrt(n) == SqrtIter(n, 0, 46340)

\* Math.atan2(y, x) for 0 <= y, 0 < x: y in 1e-7, x in 1e-4, result in 1e-7 radian
MathAtan2(y, x) ==
  LET t == (y * 10000) \div x
  IN  t - (((t * t) \div 10000000) * t) \div 30000000

\* Number.prototype.toFixed(1) of a distance in km, given in metres
toFixed1(metres) ==
  LET tenths == MathRound(metres, 100)
  IN  ToString(tenths \div 10) \o "." \o ToString(tenths % 10)

R == 6371
segments == 5

\* calculateDistance (334-344): haversine, the result in metres
calculateDistance(pos1, pos2) ==
  LET dLat == ToRadians(pos2[1] - pos1[1])
      dLon == ToRadians(pos2[2] - pos1[2])
      sLat == MathSin(dLat \div 2)
      sLon == MathSin(dLon \div 2)
      cc == (MathCos(ToRadians(pos1[1])) * MathCos(ToRadians(pos2[1]))) \div 10000
      a == sLat * sLat
           + ((sLon * sLon) \div 10000) * cc
           + (((sLon * sLon) % 10000) * cc) \div 10000
      c == 2 * MathAtan2(MathSqrt(a), MathSqrt(100000000 - a \div 1000000))
  IN  (R * c) \div 10000

\* calculateRouteDistance (325-331)
RECURSIVE RouteDistanceFrom(_, _)
RouteDistanceFrom(coordinates, i) ==
  IF i > Len(coordinates) THEN 0
  ELSE calculateDistance(coordinates[i - 1], coordinates[i])
       + RouteDistanceFrom(coordinates, i + 1)

calculateRouteDistance(coordinates) == RouteDistanceFrom(coordinates, 2)

\* 0.001 * Math.sin(factor * Math.PI * 4) with factor = i / segments (311-313),
\* in 1e-6 degree; sin(4 pi i / 5) is 0.587785, -0.951057, 0.951057, -0.587785
\* for i = 1..4 and has period 5 in i
variation(i) ==
  LET sinMicro == CASE i % segments = 0 -> 0
                    [] i % segments = 1 -> 587785
                    [] i % segments = 2 -> 0 - 951057
                    [] i % segments = 3 -> 951057
                    [] OTHER -> 0 - 587785
  IN  MathRound(sinMicro, 1000)

\* an interior waypoint of generateSimulatedRoute (311-317)
waypoint(start, end, i) ==
  LET latDiff == end[1] - start[1]
      lngDiff == end[2] - start[2]
  IN  << start[1] + MathRound(latDiff * i, segments) + variation(i),
         start[2] + MathRound(lngDiff * i, segments) + MathRound(variation(i), 2) >>

\* mutant: the destination is not pushed after the loop
generateSimulatedRouteNoEnd(start, end) ==
  <<start>> \o [i \in 1..(segments - 1) |-> waypoint(start, end, i)]

\* mutant: the loop also runs for i = segments
generateSimulatedRouteLoopsToEnd(start, end) ==
  <<start>> \o [i \in 1..segments |-> waypoint(start, end, i)] \o <<end>>

\* generateSimulatedRoute (301-322)
generateSimulatedRoute(start, end) ==
  <<start>> \o [i \in 1..(segments - 1) |-> waypoint(start, end, i)] \o <<end>>

\* mutant: the simulated route is timed at the straight-line speed
simulatedRouteInfoAtFifty(userPos, destination) ==
  LET routeCoordinates == generateSimulatedRoute(userPos, destination)
      distance == calculateRouteDistance(routeCoordinates)
      estimatedTime == MathRound(distance * 60, 50 * 1000)
  IN  [distance |-> toFixed1(distance), time |-> estimatedTime,
       type |-> "simulated-route", coordinates |-> routeCoordinates]

\* the object given to onRouteInfo in the try branch (239-248)
simulatedRouteInfo(userPos, destination) ==
  LET routeCoordinates == generateSimulatedRoute(userPos, destination)
      distance == calculateRouteDistance(routeCoordinates)
      estimatedTime == MathRound(distance * 60, 30 * 1000)
  IN  [distance |-> toFixed1(distance), time |-> estimatedTime,
       type |-> "simulated-route", coordinates |-> routeCoordinates]

\* the object given to onRouteInfo in the fallback branch (266-274)
straightLineInfo(userPos, destination) ==
  LET distance == calculateDistance(userPos, destination)
      estimatedTime == MathRound(distance * 60, 50 * 1000)
  IN  [distance |-> toFixed1(distance), time |-> estimatedTime,
       type |-> "straight-line"]

(***************************************************************************)
(* SimpleRouting (App.js 197-298).                                         *)
(***************************************************************************)
\* what a Leaflet call of createRoute does: "ok", or it throws in
\* L.polyline(...).addTo(map) ("addThrows", before the ref is assigned) or in
\* map.fitBounds ("fitThrows", the polyline being on the map already)
LeafletOutcomes == {"ok", "addThrows", "fitThrows"}

\* mutant: onRoutingState(false) is called after a delivered result only
createRouteCallsNoFinally(tryOutcome, fallbackOutcome) ==
  <<"onRoutingState(true)">>
  \o (IF tryOutcome = "ok" THEN <<"onRouteInfo", "onRoutingState(false)">>
      ELSE IF fallbackOutcome = "ok"
             THEN <<"onRouteInfo", "onRoutingState(false)">>
             ELSE <<>>)

\* the calls createRoute (214-282) makes on its props, in order
createRouteCalls(tryOutcome, fallbackOutcome) ==
  <<"onRoutingState(true)">>
  \o (IF tryOutcome = "ok" THEN <<"onRouteInfo">>
      ELSE IF fallbackOutcome = "ok" THEN <<"onRouteInfo">> ELSE <<>>)
  \o <<"onRoutingState(false)">>

\* the object createRoute hands to onRouteInfo, if any
createRouteResult(userPos, destination, tryOutcome, fallbackOutcome) ==
  IF tryOutcome = "ok" THEN <<simulatedRouteInfo(userPos, destination)>>
  ELSE IF fallbackOutcome = "ok" THEN <<straightLineInfo(userPos, destination)>>
  ELSE <<>>

\* handleRoutingState (434-436) applied to the onRoutingState calls of a run,
\* in order: the value isRoutingLoading has after the batch
RECURSIVE handleRoutingState(_, _)
handleRoutingState(calls, isLoading) ==
  IF calls = <<>> THEN isLoading
  ELSE handleRoutingState(Tail(calls),
         CASE Head(calls) = "onRoutingState(true)" -> TRUE
           [] Head(calls) = "onRoutingState(false)" -> FALSE
           [] OTHER -> isLoading)

\* the try branch left its polyline on the map and the fallback adds another
LeavesOrphan(tryOutcome, fallbackOutcome) ==
  tryOutcome = "fitThrows" /\ fallbackOutcome /= "addThrows"

\* the effect of SimpleRouting (201-284) on the overlay and the host, run at a
\* commit where SimpleRouting is rendered; the cleanup of the previous run
\* (286-294) or lines 204-212 have removed the ref's layer from the map.
RoutingEffect(tryOutcome, fallbackOutcome) ==
  LET \* 204-212: the existing layer is removed and the ref cleared
      tryAdds == tryOutcome /= "addThrows"
      fallbackRuns == tryOutcome /= "ok"
      fallbackAdds == fallbackRuns /\ fallbackOutcome /= "addThrows"
      result == createRouteResult(userPosition, selectedDestination,
                                  tryOutcome, fallbackOutcome)
  IN  /\ routeLayerRef' = IF tryAdds \/ fallbackAdds THEN "layer" ELSE "null"
      /\ refOnMap' = (tryAdds \/ fallbackAdds)
      /\ orphanLayers' = IF tryAdds /\ fallbackAdds THEN orphanLayers + 1
                         ELSE orphanLayers
      /\ lastRun' = [userPosition |-> userPosition,
                     destination |-> selectedDestination,
                     calls |-> createRouteCalls(tryOutcome, fallbackOutcome),
                     result |-> result,
                     rerun |-> (lastEvent.src = "render" /\ view.routing)]
      \* handleRouteInfo (430-432) and handleRoutingState (434-436), batched
      /\ routeInfo' = IF result /= <<>> THEN result ELSE routeInfo
      /\ isRoutingLoading' =
           handleRoutingState(createRouteCalls(tryOutcome, fallbackOutcome),
                              isRoutingLoading)
      /\ hostPending' = (result /= <<>> \/ isRoutingLoading' /= isRoutingLoading)

\* the cleanup of SimpleRouting's effect (286-294) when it unmounts
RoutingCleanup ==
  /\ routeLayerRef' = "null"
  /\ refOnMap' = FALSE
  /\ UNCHANGED <<orphanLayers, lastRun>>

\* the JSX condition of line 807
RendersRouting == userPosition /= NullPosition /\ selectedDestination /= NullPosition

\* a commit of MapView: it renders with the current state, then React runs the
\* cleanups and the effects whose dependencies changed.  The handlers are new
\* functions on every render, so both LocationController's effect (deps 191)
\* and SimpleRouting's effect (deps 295) run again at every commit.
Render ==
  /\ UNCHANGED jsxVars
  /\ treeMounted
  /\ hostPending
  /\ StartsSession => Len(sessions) < MaxSessions
  /\ view' = [refresh |-> userPosition /= NullPosition
                          /\ locationAccuracy /= NullAccuracy
                          /\ locationAccuracy /= 0,
              clear |-> selectedDestination /= NullPosition,
              routing |-> RendersRouting]
  /\ LocationEffect
  /\ IF RendersRouting
       THEN \E tryOutcome \in LeafletOutcomes, fallbackOutcome \in LeafletOutcomes :
              /\ tryOutcome = "ok" => fallbackOutcome = "ok"
              /\ LeavesOrphan(tryOutcome, fallbackOutcome)
                   => orphanLayers < MaxOrphanLayers
              /\ RoutingEffect(tryOutcome, fallbackOutcome)
              /\ UNCHANGED <<userPosition, locationAccuracy,
                             selectedDestination, loading, error>>
       ELSE /\ IF view.routing THEN RoutingCleanup ELSE UNCHANGED routeVars
            /\ hostPending' = FALSE
            /\ UNCHANGED hostVars
  /\ lastEvent' = Event("render", "none", 0)
  /\ UNCHANGED <<treeMounted, watchId, isWatching, envVars, lastWrite>>

(***************************************************************************)
(* The user.                                                               *)
(***************************************************************************)
\* handleDestinationSelect (425-428)
handleDestinationSelect(location) ==
  /\ UNCHANGED jsxVars
  /\ treeMounted
  /\ selectedDestination' = location
  /\ routeInfo' = NullInfo
  /\ hostPending' = TRUE
  /\ lastEvent' = Event("select", "none", 0)
  /\ UNCHANGED <<userPosition, locationAccuracy, loading, error,
                 isRoutingLoading, treeMounted, view, lcVars, envVars,
                 routeVars, lastWrite>>

\* clearRoute (438-442); its button is rendered while a destination is selected
clearRoute ==
  /\ UNCHANGED jsxVars
  /\ treeMounted
  /\ view.clear
  /\ selectedDestination' = NullPosition
  /\ routeInfo' = NullInfo
  /\ isRoutingLoading' = FALSE
  /\ hostPending' = TRUE
  /\ lastEvent' = Event("clear", "none", 0)
  /\ UNCHANGED <<userPosition, locationAccuracy, loading, error, treeMounted,
                 view, lcVars, envVars, routeVars, lastWrite>>

\* centerOnUser (444-457); the Refresh button is rendered while the committed
\* userPosition and locationAccuracy are truthy (595), which is the
\* `userPosition` of the handler's closure
centerOnUser ==
  /\ UNCHANGED jsxVars
  /\ treeMounted
  /\ view.refresh
  /\ refreshPending < MaxRefresh
  /\ IF geoSupported
       THEN refreshPending' = refreshPending + 1
       ELSE refreshPending' = refreshPending
  /\ lastEvent' = Event("centerOnUser", "none", 0)
  /\ UNCHANGED <<hostVars, reactVars, lcVars, geoSupported, mapLoaded,
                 watches, routeVars, lastWrite>>

\* success callback of centerOnUser's request (447-452)
RefreshSuccess(sample) ==
  /\ UNCHANGED jsxVars
  /\ refreshPending > 0
  /\ refreshPending' = refreshPending - 1
  /\ IF treeMounted
       THEN /\ userPosition' = sample.coords
            /\ locationAccuracy' = sample.accuracy
            /\ hostPending' = TRUE
            /\ lastWrite' = [kind |-> "sample", sample |-> sample]
       ELSE UNCHANGED <<userPosition, locationAccuracy, hostPending, lastWrite>>
  /\ lastEvent' = Event("refresh", "none", 0)
  /\ UNCHANGED <<selectedDestination, loading, error, routeInfo,
                 isRoutingLoading, treeMounted, view, lcVars, geoSupported,
                 mapLoaded, watches, routeVars>>

\* error callback of centerOnUser's request (453): console.warn only
RefreshError(msg) ==
  /\ UNCHANGED jsxVars
  /\ refreshPending > 0
  /\ refreshPending' = refreshPending - 1
  /\ lastEvent' = Event("refreshError", "none", 0)
  /\ UNCHANGED <<hostVars, reactVars, lcVars, geoSupported, mapLoaded,
                 watches, routeVars, lastWrite>>

\* MapView is unmounted, and LocationController and SimpleRouting with it.
\* React runs the cleanup of each component's last effect run: for
\* LocationController that is clearInterval (86) or nothing (the ready branch
\* returns no cleanup), for SimpleRouting the removal of the route layer.
Unmount ==
  /\ UNCHANGED jsxVars
  /\ treeMounted
  /\ treeMounted' = FALSE
  /\ hostPending' = FALSE
  /\ view' = [refresh |-> FALSE, clear |-> FALSE, routing |-> FALSE]
  /\ readyTimer' = FALSE
  /\ IF view.routing THEN RoutingCleanup ELSE UNCHANGED routeVars
  /\ lastEvent' = Event("unmount", "none", 0)
  /\ UNCHANGED <<hostVars, watchId, isWatching, mapReadyRef, sessions,
                 envVars, lastWrite>>

(***************************************************************************)
(* MapView.jsx: the earlier host component.  It asks for one position, 500 *)
(* ms after its first commit, with no fallback request and no watch.       *)
(* MapController (41-55) and the routing control of RoutingMachine (58-109) *)
(* act on the map only.                                                    *)
(***************************************************************************)
appVars == <<hostVars, reactVars, lcVars, envVars, routeVars, lastEvent, lastWrite>>

\* a commit of MapView (188-366) with the effects it runs: at the first one
\* the effect of 131-173 sets the 500 ms timeout (168-170); the user marker
\* is rendered while userPosition is set (327) and its add handler sets the
\* 1 s timeout of line 338; RoutingMachine is rendered under the condition
\* of 357 and its effect puts the routing control on the map (62-106)
JsxRender ==
  /\ jsxMounted
  /\ jsxPending
  /\ jsxPending' = FALSE
  /\ jsxTimer' = IF jsxTimer = "unset" THEN "pending" ELSE jsxTimer
  /\ userMarker' = (jsxUserPosition /= NullPosition)
  /\ centerResetTimer' = (centerResetTimer \/ (userMarker' /\ ~userMarker))
  /\ routingControlRef' = /\ jsxUserPosition /= NullPosition
                          /\ jsxSelectedDestination /= NullPosition
                          /\ mapReady
  /\ UNCHANGED <<jsxUserPosition, jsxSelectedDestination, jsxLoading, jsxError,
                 mapReady, shouldCenterOnUser, jsxMounted, jsxRequest, appVars>>

\* getUserLocation (132-165), run by the 500 ms timeout
getUserLocation ==
  /\ jsxTimer = "pending"
  /\ jsxTimer' = "done"
  /\ IF ~geoSupported
       THEN /\ jsxError' = "Geolocation is not supported by this browser"
            /\ jsxLoading' = FALSE
            /\ jsxPending' = TRUE
            /\ UNCHANGED jsxRequest
       ELSE /\ jsxRequest' = "pending"
            /\ UNCHANGED <<jsxError, jsxLoading, jsxPending>>
  /\ UNCHANGED <<jsxUserPosition, jsxSelectedDestination, mapReady,
                 shouldCenterOnUser, jsxMounted, userMarker, centerResetTimer,
                 routingControlRef, appVars>>

\* the success callback of the request (146-153)
JsxPositionFound(sample) ==
  /\ jsxRequest = "pending"
  /\ jsxRequest' = "done"
  /\ IF jsxMounted
       THEN /\ jsxUserPosition' = sample.coords
            /\ shouldCenterOnUser' = TRUE
            /\ jsxLoading' = FALSE
            /\ jsxPending' = TRUE
            /\ UNCHANGED jsxError
       ELSE UNCHANGED <<jsxUserPosition, shouldCenterOnUser, jsxLoading,
                        jsxPending, jsxError>>
  /\ UNCHANGED <<jsxSelectedDestination, mapReady, jsxMounted, jsxTimer,
                 userMarker, centerResetTimer, routingControlRef, appVars>>

\* the error callback of the request (154-162)
JsxPositionError(msg) ==
  /\ jsxRequest = "pending"
  /\ jsxRequest' = "done"
  /\ IF jsxMounted
       THEN /\ jsxError' = "Location error: " \o msg
            /\ jsxLoading' = FALSE
            /\ jsxUserPosition' = yaoundeCenter
            /\ shouldCenterOnUser' = TRUE
            /\ jsxPending' = TRUE
       ELSE UNCHANGED <<jsxUserPosition, shouldCenterOnUser, jsxLoading,
                        jsxPending, jsxError>>
  /\ UNCHANGED <<jsxSelectedDestination, mapReady, jsxMounted, jsxTimer,
                 userMarker, centerResetTimer, routingControlRef, appVars>>

\* the timeout of the marker's add handler (338)
JsxResetCenter ==
  /\ centerResetTimer
  /\ centerResetTimer' = FALSE
  /\ IF jsxMounted
       THEN /\ shouldCenterOnUser' = FALSE
            /\ jsxPending' = (jsxPending \/ shouldCenterOnUser)
       ELSE UNCHANGED <<shouldCenterOnUser, jsxPending>>
  /\ UNCHANGED <<jsxUserPosition, jsxSelectedDestination, jsxLoading, jsxError,
                 mapReady, jsxMounted, jsxTimer, jsxRequest, userMarker,
                 routingControlRef, appVars>>

\* handleDestinationSelect of MapView.jsx (175-177)
JsxHandleDestinationSelect(location) ==
  /\ jsxMounted
  /\ jsxSelectedDestination' = location
  /\ jsxPending' = TRUE
  /\ UNCHANGED <<jsxUserPosition, jsxLoading, jsxError, mapReady,
                 shouldCenterOnUser, jsxMounted, jsxTimer, jsxRequest,
                 userMarker, centerResetTimer, routingControlRef, appVars>>

\* clearRoute of MapView.jsx (179-181); its button is rendered while a
\* destination is selected (258)
JsxClearRoute ==
  /\ jsxMounted
  /\ jsxSelectedDestination /= NullPosition
  /\ ~jsxPending
  /\ jsxSelectedDestination' = NullPosition
  /\ jsxPending' = TRUE
  /\ UNCHANGED <<jsxUserPosition, jsxLoading, jsxError, mapReady,
                 shouldCenterOnUser, jsxMounted, jsxTimer, jsxRequest,
                 userMarker, centerResetTimer, routingControlRef, appVars>>

\* handleMapReady (183-186), the whenCreated callback of MapContainer
handleMapReady ==
  /\ jsxMounted
  /\ ~mapReady
  /\ mapReady' = TRUE
  /\ jsxPending' = TRUE
  /\ UNCHANGED <<jsxUserPosition, jsxSelectedDestination, jsxLoading, jsxError,
                 shouldCenterOnUser, jsxMounted, jsxTimer, jsxRequest,
                 userMarker, centerResetTimer, routingControlRef, appVars>>

\* MapView.jsx is unmounted: the cleanup of 172 clears the 500 ms timeout, the
\* cleanup of 101-105 removes the routing control, the map goes with its marker
JsxUnmount ==
  /\ jsxMounted
  /\ jsxMounted' = FALSE
  /\ jsxPending' = FALSE
  /\ jsxTimer' = IF jsxTimer = "pending" THEN "done" ELSE jsxTimer
  /\ userMarker' = FALSE
  /\ routingControlRef' = FALSE
  /\ UNCHANGED <<jsxUserPosition, jsxSelectedDestination, jsxLoading, jsxError,
                 mapReady, shouldCenterOnUser, jsxRequest, centerResetTimer,
                 appVars>>

NextJsx ==
  \/ JsxRender
  \/ getUserLocation
  \/ \E sample \in Samples : JsxPositionFound(sample)
  \/ \E msg \in GeoErrors : JsxPositionError(msg)
  \/ JsxResetCenter
  \/ \E i \in DOMAIN locations : JsxHandleDestinationSelect(locations[i])
  \/ JsxClearRoute
  \/ handleMapReady
  \/ JsxUnmount

(***************************************************************************)
(* Specifications.  Spec is the whole program of App.js; MapView.jsx does   *)
(* not take part in it and has its own JsxSpec.  LocationSpec is the program *)
(* while the user selects no destination (SimpleRouting is never rendered). *)
(* RoutingSpec is the program while the one-shot position requests are      *)
(* still unanswered and the Refresh button is not used: fixes reach the     *)
(* host through the watch, or the default point through the report of a     *)
(* browser without geolocation.                                             *)
(***************************************************************************)
NextLocation ==
  \/ Render
  \/ MapLoads
  \/ ReadyTick
  \/ \E s \in 1..MaxSessions : StartLocationWatch(s)
  \/ \E s \in 1..MaxSessions, sample \in Samples : Stage1Success(s, sample)
  \/ \E s \in 1..MaxSessions, msg \in GeoErrors : Stage1Error(s, msg)
  \/ \E s \in 1..MaxSessions, sample \in Samples : Stage2Success(s, sample)
  \/ \E s \in 1..MaxSessions, msg \in GeoErrors : Stage2Error(s, msg)
  \/ \E s \in 1..MaxSessions, sample \in Samples : WatchUpdate(s, sample)
  \/ \E s \in 1..MaxSessions, msg \in GeoErrors : WatchError(s, msg)
  \/ centerOnUser
  \/ \E sample \in Samples : RefreshSuccess(sample)
  \/ \E msg \in GeoErrors : RefreshError(msg)
  \/ Unmount

NextRouting ==
  \/ Render
  \/ MapLoads
  \/ ReadyTick
  \/ \E s \in 1..MaxSessions : StartLocationWatch(s)
  \/ \E s \in 1..MaxSessions, sample \in Samples : WatchUpdate(s, sample)
  \/ \E location \in Destinations : handleDestinationSelect(location)
  \/ clearRoute
  \/ Unmount

\* EstimateSpec: the program from the moment a destination has been selected
\* after a fix of the watch, with no further user input or sensor event.  The
\* fix is any point of Origins, the destination any of the `locations`.
Origins ==
  { sample.coords : sample \in Samples } \cup { yaoundeCenter }
    \cup { locations[i] : i \in DOMAIN locations }

EstimateInit ==
  /\ JsxInit
  /\ userPosition \in Origins
  /\ locationAccuracy = 12
  /\ selectedDestination \in { locations[i] : i \in DOMAIN locations }
  /\ loading = FALSE
  /\ error = NullError
  /\ routeInfo = NullInfo
  /\ isRoutingLoading = FALSE
  /\ treeMounted = TRUE
  /\ hostPending = TRUE
  /\ view = [refresh |-> TRUE, clear |-> FALSE, routing |-> FALSE]
  /\ watchId = 1
  /\ isWatching = TRUE
  /\ mapReadyRef = TRUE
  /\ readyTimer = FALSE
  /\ sessions = << [NewSession EXCEPT !.phase = "fired", !.s1 = "pending",
                                       !.watch = 1] >>
  /\ geoSupported = TRUE
  /\ mapLoaded = TRUE
  /\ watches = {1}
  /\ refreshPending = 0
  /\ routeLayerRef = "null"
  /\ refOnMap = FALSE
  /\ orphanLayers = 0
  /\ lastRun = NoRun
  /\ lastEvent = Event("select", "none", 0)
  /\ lastWrite = [kind |-> "sample",
                  sample |-> [coords |-> userPosition, accuracy |-> 12]]

NextEstimate == Render

Next == NextLocation \/ NextRouting

Spec == Init /\ [][Next]_vars

LocationSpec == Init /\ [][NextLocation]_vars

\* LocationSpec with the scheduling the browser and React guarantee: a
\* scheduled render is committed, the interval and the timeouts fire, and
\* every getCurrentPosition request is answered with a success or an error.
\* The watch and the Refresh request are not required to answer.
Stage1Answer ==
  \E s \in 1..MaxSessions :
    \/ \E sample \in Samples : Stage1Success(s, sample)
    \/ \E msg \in GeoErrors : Stage1Error(s, msg)

Stage2Answer ==
  \E s \in 1..MaxSessions :
    \/ \E sample \in Samples : Stage2Success(s, sample)
    \/ \E msg \in GeoErrors : Stage2Error(s, msg)

LocationFairSpec ==
  /\ LocationSpec
  /\ WF_vars(Render)
  /\ WF_vars(ReadyTick)
  /\ WF_vars(\E s \in 1..MaxSessions : StartLocationWatch(s))
  /\ WF_vars(Stage1Answer)
  /\ WF_vars(Stage2Answer)

RoutingSpec == Init /\ [][NextRouting]_vars

EstimateSpec == EstimateInit /\ [][NextEstimate]_vars

\* MapView.jsx on its own
JsxSpec == Init /\ [][NextJsx]_vars

(***************************************************************************)
(* Properties of the location tracking (LocationSpec).                     *)
(***************************************************************************)
positionState == <<userPosition, locationAccuracy, error, loading>>

\* C1: for every stage-1 request, the low-accuracy fallback request has been
\* issued exactly once if the stage-1 request failed, and not at all
\* otherwise (stage 1 pending or succeeded).
C1_FallbackIssuedOncePerFailure ==
  \A s \in 1..Len(sessions) :
    /\ sessions[s].s1 = "failed" => sessions[s].s2Issued = 1
    /\ sessions[s].s1 /= "failed" =>
         sessions[s].s2Issued = 0 /\ sessions[s].s2 = "none"

\* a stage-1 request failed and its fallback request has been answered
C1_Witness ==
  \E s \in 1..Len(sessions) :
    sessions[s].s1 = "failed" /\ sessions[s].s2 \in {"ok", "failed"}

\* C2 as stated: every onLocationError call is preceded by a stage-1 failure
\* followed by a stage-2 failure of the same request chain.
C2_ErrorOnlyAfterBothStagesFail ==
  lastEvent.cb = "onLocationError" =>
    /\ sessions[lastEvent.s].s1 = "failed"
    /\ sessions[lastEvent.s].s2 = "failed"

\* C2 amended: onLocationError is called either by the stage-2 error callback
\* of a chain whose stage 1 failed, or by startLocationWatch when the browser
\* has no navigator.geolocation, before any request is issued; a stage-1
\* failure and a watch error call neither handler and leave userPosition,
\* locationAccuracy, error and loading as they were.
C2_ErrorOnlyTerminalOrUnsupported ==
  /\ [](lastEvent.cb = "onLocationError" =>
          \/ /\ lastEvent.src = "stage2Error"
             /\ sessions[lastEvent.s].s1 = "failed"
             /\ sessions[lastEvent.s].s2 = "failed"
          \/ /\ lastEvent.src = "unsupported"
             /\ ~geoSupported
             /\ sessions[lastEvent.s].s1 = "none"
             /\ sessions[lastEvent.s].s2 = "none"
             /\ watches = {})
  /\ [][lastEvent'.src \in {"stage1Error", "watchError"} =>
          lastEvent'.cb = "none" /\ UNCHANGED positionState]_vars

\* the terminal failure has just been reported
C2_Witness ==
  /\ lastEvent.src = "stage2Error"
  /\ lastEvent.cb = "onLocationError"
  /\ sessions[lastEvent.s].s1 = "failed"

\* C3: when the stage-2 request of a chain whose stage 1 failed fails too, the
\* mounted host is left with the message "Location error: <reason>" of that
\* error, loading false, the default point as userPosition and no accuracy.
C3_TerminalErrorState ==
  (treeMounted /\ lastEvent.src = "stage2Error") =>
    /\ sessions[lastEvent.s].s1 = "failed"
    /\ lastEvent.msg \in GeoErrors
    /\ error = "Location error: " \o lastEvent.msg
    /\ loading = FALSE
    /\ userPosition = yaoundeCenter
    /\ locationAccuracy = NullAccuracy

\* both requests have just failed, after a fix had been shown
C3_Witness ==
  /\ treeMounted
  /\ lastEvent.src = "stage2Error"
  /\ view.refresh
  /\ lastEvent.msg = "Timeout expired"

\* C4 as stated: once the component is torn down after a watch was started,
\* the subscription watchPosition returned is no longer active.
C4_WatchReleasedOnTeardown ==
  (~treeMounted /\ watchId /= 0) => watchId \notin watches

\* C5 as stated: after teardown no position or error delivered by the watch,
\* the stage-1 request or the stage-2 request reaches onLocationFound or
\* onLocationError.
C5_NoCallbackAfterStop ==
  (~treeMounted /\ lastEvent.src \in {"stage1", "stage2", "stage2Error", "watch"})
    => lastEvent.cb = "none"

\* C6: a watch error leaves the subscription active and userPosition,
\* locationAccuracy, error and loading unchanged, and every position update
\* of a subscription, also of one that reported errors, is passed to
\* onLocationFound.
C6_WatchErrorKeepsWatch ==
  /\ [](\A s \in 1..Len(sessions) :
          sessions[s].warned => sessions[s].watch \in watches)
  /\ [](lastEvent.src = "watch" => lastEvent.cb = "onLocationFound")
  /\ [][lastEvent'.src = "watchError" =>
          watches' = watches /\ UNCHANGED positionState]_vars

\* a position update is delivered by a watch that reported an error before
C6_Witness ==
  /\ lastEvent.src = "watch"
  /\ lastEvent.cb = "onLocationFound"
  /\ sessions[lastEvent.s].warned

\* C7: (userPosition, locationAccuracy) is the (coordinate, accuracy) of the
\* sample the last successful callback delivered, or (default point, null)
\* when the last writer was onLocationError, or (null, null) before any write.
C7_PositionIsOneSample ==
  CASE lastWrite.kind = "sample" ->
         /\ userPosition = lastWrite.sample.coords
         /\ locationAccuracy = lastWrite.sample.accuracy
    [] lastWrite.kind = "error" ->
         /\ userPosition = yaoundeCenter
         /\ locationAccuracy = NullAccuracy
    [] OTHER ->
         /\ userPosition = NullPosition
         /\ locationAccuracy = NullAccuracy

\* a watch update has overwritten the state the terminal error left, while
\* a Refresh request is still in flight
C7_Witness ==
  /\ lastEvent.src = "watch"
  /\ lastWrite.kind = "sample"
  /\ refreshPending > 0
  /\ \E s \in 1..Len(sessions) : sessions[s].s2 = "failed"

\* C20: while MapView stays mounted, once the map is ready loading eventually
\* becomes false, whichever way the position attempt ends; once false it is
\* never true again; and whenever it is false userPosition is set.
C20_LoadingEnds ==
  /\ (mapLoaded /\ treeMounted) ~> (~loading \/ ~treeMounted)
  /\ [][~loading => ~loading']_vars
  /\ [](~loading => userPosition /= NullPosition)

\* loading has ended with the fix of a stage-2 request, stage 1 having failed
C20_Witness ==
  /\ treeMounted
  /\ ~loading
  /\ lastEvent.src = "stage2"
  /\ lastEvent.cb = "onLocationFound"
  /\ sessions[lastEvent.s].s1 = "failed"
  /\ userPosition /= NullPosition

(***************************************************************************)
(* Properties of the route estimation (RoutingSpec).                       *)
(***************************************************************************)
\* C8 as stated: every run of createRoute hands exactly one result to
\* onRouteInfo.
C8_ExactlyOneResult ==
  lastRun.calls /= <<>> =>
    /\ Cardinality({ i \in DOMAIN lastRun.calls :
                       lastRun.calls[i] = "onRouteInfo" }) = 1
    /\ Len(lastRun.result) = 1

\* C9 as stated: every result handed to onRouteInfo carries a path of at least
\* two points, a non-negative distance, a non-negative integer duration and
\* the kind tag of its branch.
C9_ResultWellFormed ==
  lastRun.result /= <<>> =>
    LET r == lastRun.result[1]
    IN  /\ r.type \in {"simulated-route", "straight-line"}
        /\ r.time \in Nat
        /\ \E tenths \in 0..999 :
             r.distance = ToString(tenths \div 10) \o "." \o ToString(tenths % 10)
        /\ "coordinates" \in DOMAIN r
        /\ Len(r.coordinates) >= 2

\* C10: the path of a simulated-route result starts with the userPosition and
\* ends with the destination the run was given, unperturbed.
C10_EndpointsExact ==
  (lastRun.result /= <<>> /\ lastRun.result[1].type = "simulated-route") =>
    LET path == lastRun.result[1].coordinates
    IN  /\ Len(path) >= 2
        /\ path[1] = lastRun.userPosition
        /\ path[Len(path)] = lastRun.destination

\* a simulated route between two different points, with perturbed interior
C10_Witness ==
  /\ lastRun.result /= <<>>
  /\ lastRun.result[1].type = "simulated-route"
  /\ lastRun.userPosition /= lastRun.destination
  /\ lastRun.result[1].coordinates[2] /=
       << lastRun.userPosition[1]
            + MathRound(lastRun.destination[1] - lastRun.userPosition[1], segments),
          lastRun.userPosition[2]
            + MathRound(lastRun.destination[2] - lastRun.userPosition[2], segments) >>

\* C14 as stated: after a commit that renders SimpleRouting, the effect has run
\* for the current userPosition and destination and routeInfo is the result of
\* that run; and while no destination is selected and the committed view has
\* no SimpleRouting, routeInfo is null and no route polyline is on the map.
C14_RouteFollowsInputs ==
  /\ (lastEvent.src = "render" /\ view.routing) =>
       /\ lastRun.userPosition = userPosition
       /\ lastRun.destination = selectedDestination
       /\ routeInfo /= NullInfo
       /\ routeInfo = lastRun.result
  /\ (treeMounted /\ selectedDestination = NullPosition /\ ~view.routing) =>
       /\ routeInfo = NullInfo
       /\ ~refOnMap
       /\ orphanLayers = 0

\* C15 as stated: for the one mount of LocationController, the stage-1
\* getCurrentPosition has been issued at most once, watchPosition has been
\* called at most once and at most one watch subscription is active.
C15_OneWatchPerMount ==
  /\ Cardinality({ s \in 1..Len(sessions) : sessions[s].s1 /= "none" }) <= 1
  /\ Cardinality({ s \in 1..Len(sessions) : sessions[s].watch /= 0 }) <= 1
  /\ Cardinality(watches) <= 1

\* the route polylines on the map
routeLayersOnMap == (IF refOnMap THEN 1 ELSE 0) + orphanLayers

\* C17 as stated: at most one route polyline is on the map, and none while no
\* destination is selected and the committed view has no SimpleRouting.
C17_AtMostOnePolyline ==
  /\ routeLayersOnMap <= 1
  /\ (treeMounted /\ selectedDestination = NullPosition /\ ~view.routing) =>
       routeLayersOnMap = 0

\* C18: the first call of every createRoute run is onRoutingState(true), its
\* last call is onRoutingState(false) and it makes no other onRoutingState
\* call, on each of its exits; and isRoutingLoading is false in every state
\* between the steps of the program, none of which is inside a run.
C18_RoutingFlagBracketsRun ==
  /\ lastRun.calls /= <<>> =>
       /\ Len(lastRun.calls) >= 2
       /\ Head(lastRun.calls) = "onRoutingState(true)"
       /\ lastRun.calls[Len(lastRun.calls)] = "onRoutingState(false)"
       /\ \A i \in 2..(Len(lastRun.calls) - 1) :
            lastRun.calls[i] = "onRouteInfo"
  /\ isRoutingLoading = FALSE

\* a run whose fallback threw as well has ended, a destination being selected
C18_Witness ==
  /\ lastEvent.src = "render"
  /\ view.routing
  /\ lastRun.calls = <<"onRoutingState(true)", "onRoutingState(false)">>
  /\ lastRun.result = <<>>

(***************************************************************************)
(* Properties of the estimation functions (EstimateSpec).                  *)
(***************************************************************************)
\* C11: the path generateSimulatedRoute returns has exactly segments + 1 = 6
\* waypoints for every origin and destination, also when the two are equal.
C11_SixWaypoints ==
  (lastRun.result /= <<>> /\ lastRun.result[1].type = "simulated-route") =>
    /\ Len(lastRun.result[1].coordinates) = segments + 1
    /\ Len(lastRun.result[1].coordinates) = 6

\* a simulated route from a point to itself
C11_Witness ==
  /\ lastRun.result /= <<>>
  /\ lastRun.result[1].type = "simulated-route"
  /\ lastRun.userPosition = lastRun.destination

\* C12 as stated: the distance a result reports is the sum of calculateDistance
\* over the consecutive points of the path the same result reports (the
\* distance being printed with one decimal).
C12_DistanceIsPathSum ==
  lastRun.result /= <<>> =>
    LET r == lastRun.result[1]
    IN  /\ "coordinates" \in DOMAIN r
        /\ r.distance = toFixed1(calculateRouteDistance(r.coordinates))

\* C13: the duration a result reports is a natural number t, the nearest
\* integer (a tie rounded up) to d / 30 * 60 in a simulated-route result and
\* to d / 50 * 60 in a straight-line result, d being the distance in km the
\* branch computed (here in metres): t <= x + 1/2 < t + 1 for the quotient x.
C13_DurationRounded ==
  lastRun.result /= <<>> =>
    LET r == lastRun.result[1]
        t == r.time
        d == IF r.type = "simulated-route"
               THEN calculateRouteDistance(r.coordinates)
               ELSE calculateDistance(lastRun.userPosition, lastRun.destination)
    IN  /\ t \in Nat
        /\ d >= 0
        /\ r.type = "simulated-route" =>
             (500 * t <= d + 250 /\ d + 250 < 500 * (t + 1))
        /\ r.type = "straight-line" =>
             (5000 * t <= 6 * d + 2500 /\ 6 * d + 2500 < 5000 * (t + 1))

\* a straight-line result whose duration differs from the one the
\* simulated-route speed would give for the same distance
C13_Witness ==
  /\ lastRun.result /= <<>>
  /\ lastRun.result[1].type = "straight-line"
  /\ lastRun.result[1].time > 0
  /\ lastRun.result[1].time /=
       MathRound(calculateDistance(lastRun.userPosition, lastRun.destination) * 60,
                 30 * 1000)

\* C16 as stated: the delivery of a route result does not itself run the
\* effect of SimpleRouting again, that is, no createRoute run is made by a
\* commit that only the previous run's onRouteInfo / onRoutingState calls
\* scheduled.
C16_ResultDoesNotRetrigger == ~lastRun.rerun

(***************************************************************************)
(* Properties of MapView.jsx (JsxSpec).                                    *)
(***************************************************************************)
\* C19 as stated: in MapView.jsx, whenever loading is false the user position
\* is set: it is the coordinate of the fix obtained or the default centre.
C19_LoadedImpliesPosition ==
  jsxLoading = FALSE =>
    /\ jsxUserPosition /= NullPosition
    /\ jsxUserPosition \in { sample.coords : sample \in Samples } \cup { yaoundeCenter }

====
